---- MODULE Spec2Model ----
\* A model of internal/vault/operator_client.go: the lifecycle controller
\* (Init, Unseal, RaftInitialized, Configure) of one vault value working
\* against a key store (KVService) and a Vault server (api.Client).  Spec is
\* that controller; New, RaftJoin, configureAuditDevices,
\* configureIdentityGroups and the pki startup secret each have a
\* specification of their own over their own inputs (SpecNew, SpecRaftJoin,
\* SpecRaftInitialized, SpecAuditDevices, SpecIdentityGroups, SpecPkiSecret).
\*
\* Byte strings and Go strings are tuples: <<>> is the empty string, and
\* <<"vault-unseal-", 1>> is the text "vault-unseal-1".  The key store is a
\* partial function from key names to values: a name outside its domain is
\* the store's "not found".
EXTENDS Integers, Sequences, FiniteSets, TLC

\* ---------------------------------------------------------------- bounds
\* the largest SecretShares a configuration asks for
MaxShares == 2
\* how many key names the key store may already hold before the first call
MaxSeeded == 1
\* how many operations are called on the controller in one behaviour
MaxCalls == 2
\* the largest progress figure an unseal response carries
MaxProgress == 2

VARIABLES
    cfg,        \* vault.config
    store,      \* the contents behind vault.keyStore
    srvInit,    \* the server's own init status
    token,      \* the token held by vault.cl
    pc,         \* the controller's position
    op,         \* the operation being (or last) called
    result,     \* what the last finished call returned
    calls,      \* how many calls were started
    i,          \* the loop index of the running call
    keyID,      \* the key name handed to keyStoreSet / used by Unseal
    val,        \* the value handed to keyStoreSet / fetched by Unseal
    after,      \* where keyStoreSet was called from
    err,        \* the err of the latest key-store lookup
    resp,       \* the InitResponse of the running Init
    rootToken,  \* Init's local rootToken
    sets,       \* history: the KVService.Set calls issued by the running call
    initCalls,  \* history: remote init calls issued by the running call
    checkFailed, \* history: a pre-validation lookup ended in a store error
    srvInit0,   \* history: what InitStatus reported to the running call
    exists0,    \* history: the pre-validated names the store held when Init began
    fetched,    \* history: the indices Unseal fetched, in order
    submitted,  \* history: the indices Unseal submitted, in order
    resps,      \* history: the unseal responses received, in order
    token0,     \* history: the client's token when the running call began
    started,    \* history: the Configure sub-steps run, in order, and how each ended
    lastSeal,   \* history: what the latest Sealed() of Init's wait loop returned
    input,      \* the arguments, process environment or document handed to the call
    live,       \* the server-side tables a reconciler reads and writes
    requests    \* history: the write requests the running call sent to the server

vars == <<cfg, store, srvInit, token, pc, op, result, calls, i, keyID, val,
          after, err, resp, rootToken, sets, initCalls, checkFailed, srvInit0, exists0,
          fetched, submitted, resps, token0, started, lastSeal, input, live,
          requests>>

\* the variables only one operation writes
initHist == <<initCalls, checkFailed, srvInit0, exists0>>
unsealHist == <<fetched, submitted, resps>>
kssLocals == <<keyID, val, after>>
initLocals == <<resp, rootToken>>
env == <<cfg, store, srvInit, token>>
\* what Init, Unseal, RaftInitialized and the Configure frame never touch
outside == <<input, live, requests>>

\* ------------------------------------------------------------ key names
unsealKeyForID(n) == <<"vault-unseal-", n>>

recoveryKeyForID(n) == <<"vault-recovery-", n>>

rootTokenKey == <<"vault-root">>

testKey == <<"vault-test">>

\* ------------------------------------------------------------- values
EmptyString == <<>>

\* a value some other party left in the key store
SeedValue == <<"seeded">>

\* the root token the server generates on init
GeneratedRootToken == <<"generated-root-token">>

\* a token the caller's client already carries
CallerToken == <<"caller-token">>

\* the fixed root token a configuration may ask for
FixedRootToken == <<"fixed-root-token">>

\* the i-th unseal and recovery share of the server's init response
UnsealShare(n) == <<"unseal-share-", n>>

RecoveryShare(n) == <<"recovery-share-", n>>

\* every key name this controller can touch within the bounds
AllKeys ==
    {rootTokenKey, testKey}
        \cup {unsealKeyForID(n) : n \in 0..MaxShares}
        \cup {recoveryKeyForID(n) : n \in 0..(MaxShares - 1)}

\* what lastSeal holds before the wait loop asked for the seal status
NoSeal == [sealed |-> FALSE, err |-> "none"]

\* the InitResponse of a call that has none
NoResponse == [Keys |-> <<>>, RecoveryKeys |-> <<>>, RootToken |-> EmptyString]

\* ------------------------------------------------------- configuration
\* the configurations a controller is built from here: one share or more and
\* a threshold of one, which the controller only hands on to the server
ConfigSpace ==
    [SecretShares : 1..MaxShares,
     SecretThreshold : {1},
     InitRootToken : {EmptyString, FixedRootToken},
     StoreRootToken : BOOLEAN,
     PreFlightChecks : BOOLEAN]

\* New, were its check to turn away equal numbers too
New_RejectsEqual(c) == ~(c.SecretShares <= c.SecretThreshold)

\* New: the configurations construction accepts
New(c) == ~(c.SecretShares < c.SecretThreshold)

\* ----------------------------------------------------------- key store
\* mutant: a name the store does not hold yields the empty value
KVGet_NeverMissing(key) ==
    {[val |-> IF key \in DOMAIN store THEN store[key] ELSE EmptyString,
      err |-> "nil"]}

\* KVService.Get: the value, a not-found error, or another store error
KVGet(key) ==
    {[val |-> EmptyString, err |-> "error"]}
        \cup (IF key \in DOMAIN store
                 THEN {[val |-> store[key], err |-> "nil"]}
                 ELSE {[val |-> EmptyString, err |-> "notfound"]})

\* KVService.Set when it succeeds
KVSet(key, value) ==
    [k \in (DOMAIN store) \cup {key} |-> IF k = key THEN value ELSE store[k]]

isNotFoundError(e) == e = "notfound"

\* mutant: every lookup is taken for a not-found
keyStoreNotFound_Always(g) == [notFound |-> TRUE, err |-> "nil"]

keyStoreNotFound(g) ==
    IF isNotFoundError(g.err)
        THEN [notFound |-> TRUE, err |-> "nil"]
        ELSE [notFound |-> FALSE, err |-> g.err]

\* one KVService.Set call as the history records it
SetRecord(key, value, lookupErr, ok) ==
    [key |-> key, val |-> value, lookup |-> lookupErr, ok |-> ok,
     existed |-> key \in DOMAIN store]

\* ------------------------------------------------------------ returning
Return(res) ==
    /\ pc' = "idle"
    /\ result' = res

\* a call starts: the locals and the per-call history are fresh
Call(name, first) ==
    /\ pc = "idle"
    /\ calls < MaxCalls
    /\ calls' = calls + 1
    /\ op' = name
    /\ pc' = first
    /\ result' = "running"
    /\ i' = 0
    /\ keyID' = EmptyString
    /\ val' = EmptyString
    /\ after' = "none"
    /\ err' = "nil"
    /\ resp' = NoResponse
    /\ rootToken' = EmptyString
    /\ sets' = <<>>
    /\ initCalls' = 0
    /\ checkFailed' = FALSE
    /\ srvInit0' = "unknown"
    /\ exists0' = {}
    /\ fetched' = <<>>
    /\ submitted' = <<>>
    /\ resps' = <<>>
    /\ token0' = token
    /\ started' = <<>>
    /\ lastSeal' = NoSeal
    /\ requests' = <<>>
    /\ UNCHANGED <<env, input, live>>

\* ------------------------------------------------------------------ Init
CallInit == Call("Init", "init_status")

\* the key names Init tests before the remote init call
InitKeys ==
    <<rootTokenKey>> \o [n \in 1..(cfg.SecretShares + 1) |-> unsealKeyForID(n - 1)]

\* mutant: the guard on the init status is lost
AlreadyInitialized_Never(initialized) == FALSE

\* Init's guard on the server's init status
AlreadyInitialized(initialized) == initialized

\* Sys().InitStatus(), and the return of an initialized server
InitStatus ==
    /\ pc = "init_status"
    /\ \E e \in {"nil", "error"} :
          IF e # "nil"
             THEN /\ Return("err_status")
                  /\ UNCHANGED <<i, srvInit0, exists0>>
             ELSE /\ srvInit0' = IF srvInit THEN "initialized" ELSE "uninitialized"
                  /\ exists0' = {InitKeys[n] : n \in 1..Len(InitKeys)} \cap DOMAIN store
                  /\ i' = 0
                  /\ IF AlreadyInitialized(srvInit)
                        THEN Return("ok")
                        ELSE /\ pc' = IF cfg.PreFlightChecks
                                         THEN "init_test_get"
                                         ELSE "init_check"
                             /\ UNCHANGED result
    /\ UNCHANGED <<env, op, outside, lastSeal, calls, kssLocals, err, initLocals, sets, initCalls,
                   checkFailed, unsealHist, token0, started>>

\* kvTester.Test: whether the lookup's error lets the probe go on to Set
TestProceeds(e) == ~(e # "nil" /\ ~isNotFoundError(e))

\* kvTester.Test, its Get
InitTestGet ==
    /\ pc = "init_test_get"
    /\ \E g \in KVGet(testKey) :
          /\ err' = g.err
          /\ IF TestProceeds(g.err)
                THEN pc' = "init_test_set" /\ UNCHANGED result
                ELSE Return("err_test")
    /\ UNCHANGED <<env, op, outside, lastSeal, calls, i, kssLocals, initLocals, sets, initHist,
                   unsealHist, token0, started>>

\* kvTester.Test, its Set
InitTestSet ==
    /\ pc = "init_test_set"
    /\ \E ok \in BOOLEAN :
          /\ sets' = Append(sets, SetRecord(testKey, testKey, err, ok))
          /\ IF ok
                THEN /\ store' = KVSet(testKey, testKey)
                     /\ pc' = "init_check"
                     /\ UNCHANGED result
                ELSE /\ Return("err_test")
                     /\ UNCHANGED store
    /\ UNCHANGED <<cfg, srvInit, token, op, outside, lastSeal, calls, i, kssLocals, err, initLocals,
                   initHist, unsealHist, token0, started>>

\* Init's verdict on one pre-validated key
PreValidate(nf) ==
    IF nf.notFound /\ nf.err # "nil"
        THEN "err_check"
        ELSE IF ~nf.notFound /\ nf.err = "nil"
                THEN "err_exists"
                ELSE "continue"

\* Init's "test every key" loop, one key per step
InitCheck ==
    /\ pc = "init_check"
    /\ IF i < Len(InitKeys)
          THEN \E g \in KVGet(InitKeys[i + 1]) :
                  LET verdict == PreValidate(keyStoreNotFound(g)) IN
                  /\ err' = g.err
                  /\ checkFailed' = (checkFailed \/ g.err = "error")
                  /\ IF verdict = "continue"
                        THEN /\ i' = i + 1
                             /\ UNCHANGED <<pc, result>>
                        ELSE /\ Return(verdict)
                             /\ UNCHANGED i
          ELSE /\ pc' = "init_call"
               /\ UNCHANGED <<i, err, result, checkFailed>>
    /\ UNCHANGED <<env, op, outside, lastSeal, calls, kssLocals, initLocals, sets, initCalls,
                   srvInit0, exists0, unsealHist, token0, started>>

\* the first n unseal and recovery shares, as an init response lists them
UnsealShares(n) == [k \in 1..n |-> UnsealShare(k - 1)]

RecoveryShares(n) == [k \in 1..n |-> RecoveryShare(k - 1)]

\* init responses with none or all of the requested shares of each kind
AnyInitResponses(req) ==
    {[Keys |-> UnsealShares(nk),
      RecoveryKeys |-> RecoveryShares(nr),
      RootToken |-> GeneratedRootToken] :
        nk \in {0, req.SecretShares}, nr \in {0, req.RecoveryShares}}

\* what the server can answer an accepted init request with: unseal shares,
\* recovery shares, or both, as many of each as were asked for
InitResponses(req) ==
    {r \in AnyInitResponses(req) : Len(r.Keys) + Len(r.RecoveryKeys) > 0}

InitRequest ==
    [SecretShares |-> cfg.SecretShares,
     SecretThreshold |-> cfg.SecretThreshold,
     RecoveryShares |-> cfg.SecretShares,
     RecoveryThreshold |-> cfg.SecretThreshold]

\* Sys().Init(): the server initializes at most once; the call may fail
\* before or after the server has acted
InitCall ==
    /\ pc = "init_call"
    /\ initCalls' = initCalls + 1
    /\ \/ /\ Return("err_init")
          /\ srvInit' \in (IF srvInit THEN {TRUE} ELSE BOOLEAN)
          /\ UNCHANGED <<i, resp>>
       \/ /\ ~srvInit
          /\ srvInit' = TRUE
          /\ resp' \in InitResponses(InitRequest)
          /\ i' = 0
          /\ pc' = "init_unseal"
          /\ UNCHANGED result
    /\ UNCHANGED <<cfg, store, token, op, outside, lastSeal, calls, kssLocals, err, rootToken, sets,
                   checkFailed, srvInit0, exists0, unsealHist, token0, started>>

\* the loop over resp.Keys
InitUnseal ==
    /\ pc = "init_unseal"
    /\ IF i < Len(resp.Keys)
          THEN /\ keyID' = unsealKeyForID(i)
               /\ val' = resp.Keys[i + 1]
               /\ after' = "unseal"
               /\ pc' = "kss_get"
               /\ UNCHANGED i
          ELSE /\ i' = 0
               /\ pc' = "init_recovery"
               /\ UNCHANGED kssLocals
    /\ UNCHANGED <<env, op, outside, lastSeal, result, calls, err, initLocals, sets, initHist,
                   unsealHist, token0, started>>

\* the loop over resp.RecoveryKeys, then rootToken := resp.RootToken
InitRecovery ==
    /\ pc = "init_recovery"
    /\ IF i < Len(resp.RecoveryKeys)
          THEN /\ keyID' = recoveryKeyForID(i)
               /\ val' = resp.RecoveryKeys[i + 1]
               /\ after' = "recovery"
               /\ pc' = "kss_get"
               /\ UNCHANGED <<i, rootToken>>
          ELSE /\ rootToken' = resp.RootToken
               /\ pc' = IF cfg.InitRootToken # EmptyString
                           THEN "init_wait"
                           ELSE "init_root"
               /\ UNCHANGED <<i, kssLocals>>
    /\ UNCHANGED <<env, op, outside, lastSeal, result, calls, err, resp, sets, initHist,
                   unsealHist, token0, started>>

\* the error Init returns when keyStoreSet fails
StoreError(from) ==
    CASE from = "unseal" -> "err_store_unseal"
      [] from = "recovery" -> "err_store_recovery"
      [] OTHER -> "err_store_root"

\* keyStoreSet, its lookup
KeyStoreSetGet ==
    /\ pc = "kss_get"
    /\ \E g \in KVGet(keyID) :
          /\ err' = g.err
          /\ IF keyStoreNotFound(g).notFound
                THEN pc' = "kss_set" /\ UNCHANGED result
                ELSE Return(StoreError(after))
    /\ UNCHANGED <<env, op, outside, lastSeal, calls, i, kssLocals, initLocals, sets, initHist,
                   unsealHist, token0, started>>

\* mutant: the error of KVService.Set is dropped
keyStoreSet_DropsError(ok) == "nil"

\* what keyStoreSet returns for the outcome of its KVService.Set
keyStoreSet(ok) == IF ok THEN "nil" ELSE "error"

\* keyStoreSet, its Set, and Init's step after a stored value
KeyStoreSetSet ==
    /\ pc = "kss_set"
    /\ \E ok \in BOOLEAN :
          /\ sets' = Append(sets, SetRecord(keyID, val, err, ok))
          /\ store' = IF ok THEN KVSet(keyID, val) ELSE store
          /\ IF keyStoreSet(ok) = "nil"
                THEN IF after = "root"
                        THEN Return("ok") /\ UNCHANGED i
                        ELSE /\ i' = i + 1
                             /\ pc' = IF after = "unseal"
                                         THEN "init_unseal"
                                         ELSE "init_recovery"
                             /\ UNCHANGED result
                ELSE Return(StoreError(after)) /\ UNCHANGED i
    /\ UNCHANGED <<cfg, srvInit, token, op, outside, lastSeal, calls, kssLocals, err, initLocals,
                   initHist, unsealHist, token0, started>>

\* vault.Sealed: Sys().SealStatus() answers, or fails
Sealed ==
    {[sealed |-> s, err |-> "nil"] : s \in BOOLEAN}
        \cup {[sealed |-> FALSE, err |-> "error"]}

\* the wait for unsealing, and SetToken(resp.RootToken) once the loop breaks
InitWait ==
    /\ pc = "init_wait"
    /\ \E st \in Sealed :
          /\ lastSeal' = st
          /\ IF ~st.sealed
                THEN /\ token' = resp.RootToken
                     /\ pc' = "init_orphan"
                ELSE UNCHANGED <<token, pc>>
    /\ UNCHANGED <<cfg, store, srvInit, op, outside, result, calls, i, kssLocals, err,
                   initLocals, sets, initHist, unsealHist, token0, started>>

\* Auth().Token().CreateOrphan with the fixed ID
InitOrphan ==
    /\ pc = "init_orphan"
    /\ \E ok \in BOOLEAN :
          IF ok
             THEN pc' = "init_revoke" /\ UNCHANGED result
             ELSE Return("err_orphan")
    /\ UNCHANGED <<env, op, outside, lastSeal, calls, i, kssLocals, err, initLocals, sets,
                   initHist, unsealHist, token0, started>>

\* Auth().Token().RevokeSelf, then rootToken := config.InitRootToken
InitRevoke ==
    /\ pc = "init_revoke"
    /\ \E ok \in BOOLEAN :
          IF ok
             THEN /\ rootToken' = cfg.InitRootToken
                  /\ pc' = "init_root"
                  /\ UNCHANGED result
             ELSE /\ Return("err_revoke")
                  /\ UNCHANGED rootToken
    /\ UNCHANGED <<env, op, outside, lastSeal, calls, i, kssLocals, err, resp, sets,
                   initHist, unsealHist, token0, started>>

\* the value Init hands to keyStoreSet for the root-token key
StoredRootToken == resp.RootToken

\* the end of Init: the root token is stored, or not
InitRoot ==
    /\ pc = "init_root"
    /\ IF cfg.StoreRootToken
          THEN /\ keyID' = rootTokenKey
               /\ val' = StoredRootToken
               /\ after' = "root"
               /\ pc' = "kss_get"
               /\ UNCHANGED result
          ELSE /\ Return("ok")
               /\ UNCHANGED kssLocals
    /\ UNCHANGED <<env, op, outside, lastSeal, calls, i, err, initLocals, sets, initHist,
                   unsealHist, token0, started>>

\* ---------------------------------------------------------------- Unseal
CallUnseal == Call("Unseal", "unseal_get")

\* keyStore.Get(unsealKeyForID(i))
UnsealGet ==
    /\ pc = "unseal_get"
    /\ fetched' = Append(fetched, i)
    /\ \E g \in KVGet(unsealKeyForID(i)) :
          /\ err' = g.err
          /\ keyID' = unsealKeyForID(i)
          /\ val' = g.val
          /\ IF g.err # "nil"
                THEN Return("err_unseal_get")
                ELSE pc' = "unseal_send" /\ UNCHANGED result
    /\ UNCHANGED <<env, op, outside, lastSeal, calls, i, after, initLocals, sets, initHist,
                   submitted, resps, token0, started>>

\* what the server can answer an unseal request with
UnsealResponses ==
    {[sealed |-> FALSE, progress |-> 0]}
        \cup {[sealed |-> TRUE, progress |-> p] : p \in 0..MaxProgress}

\* mutant: the progress is read before the seal flag
UnsealVerdict_ProgressFirst(r) ==
    IF r.progress = 0
        THEN "err_bad_key"
        ELSE IF ~r.sealed THEN "ok" ELSE "continue"

\* mutant: a progress of 0 does not end the loop
UnsealVerdict_NoBadKey(r) == IF ~r.sealed THEN "ok" ELSE "continue"

\* Unseal's reading of one response
UnsealVerdict(r) ==
    IF ~r.sealed
        THEN "ok"
        ELSE IF r.progress = 0
                THEN "err_bad_key"
                ELSE "continue"

\* Sys().Unseal(string(k)) and the response's inspection
UnsealSend ==
    /\ pc = "unseal_send"
    /\ submitted' = Append(submitted, i)
    /\ \/ /\ Return("err_unseal_send")
          /\ UNCHANGED <<i, resps>>
       \/ \E r \in UnsealResponses :
            /\ resps' = Append(resps, r)
            /\ IF UnsealVerdict(r) = "continue"
                  THEN /\ i' = i + 1
                       /\ pc' = "unseal_get"
                       /\ UNCHANGED result
                  ELSE /\ Return(UnsealVerdict(r))
                       /\ UNCHANGED i
    /\ UNCHANGED <<env, op, outside, lastSeal, calls, kssLocals, err, initLocals, sets, initHist,
                   fetched, token0, started>>

\* ------------------------------------------------------- RaftInitialized
CallRaftInitialized == Call("RaftInitialized", "raftinit_get")

\* mutant: a key that is there counts, empty or not
RaftInitializedAnswer_IgnoresEmpty(g) ==
    IF g.err # "nil"
        THEN IF isNotFoundError(g.err) THEN "false" ELSE "err_get_root"
        ELSE "true"

\* RaftInitialized's answer for the outcome of its lookup
RaftInitializedAnswer(g) ==
    IF g.err # "nil"
        THEN IF isNotFoundError(g.err) THEN "false" ELSE "err_get_root"
        ELSE IF Len(g.val) > 0 THEN "true" ELSE "false"

RaftInitialized ==
    /\ pc = "raftinit_get"
    /\ \E g \in KVGet(rootTokenKey) :
          /\ err' = g.err
          /\ Return(RaftInitializedAnswer(g))
    /\ UNCHANGED <<env, op, outside, lastSeal, calls, i, kssLocals, initLocals, sets, initHist,
                   unsealHist, token0, started>>

\* ------------------------------------------------------------- Configure
CallConfigure == Call("Configure", "cfg_get")

\* keyStore.Get(rootTokenKey) and SetToken(string(rootToken))
ConfigureGet ==
    /\ pc = "cfg_get"
    /\ \E g \in KVGet(rootTokenKey) :
          /\ err' = g.err
          /\ IF g.err # "nil"
                THEN /\ Return("err_get_root")
                     /\ UNCHANGED token
                ELSE /\ token' = g.val
                     /\ pc' = "cfg_decode"
                     /\ UNCHANGED result
    /\ UNCHANGED <<cfg, store, srvInit, op, outside, lastSeal, calls, i, kssLocals, initLocals,
                   sets, initHist, unsealHist, token0, started>>

\* mutant: the deferred SetToken is missing
DeferredToken_Missing == token

\* the token the deferred SetToken leaves behind
DeferredToken == EmptyString

\* a return of Configure once its defers are registered
ConfigureReturn(res) ==
    /\ Return(res)
    /\ token' = DeferredToken

\* mutant: a failed step does not end Configure
Then_IgnoresError(ok, next, failure) ==
    IF next = "return"
        THEN ConfigureReturn("ok")
        ELSE pc' = next /\ UNCHANGED <<result, token>>

\* "if err != nil return": the step after a fallible one
Then(ok, next, failure) ==
    IF ok
        THEN IF next = "return" THEN ConfigureReturn("ok")
                                ELSE pc' = next /\ UNCHANGED <<result, token>>
        ELSE ConfigureReturn(failure)

\* what a step of Configure leaves alone
ConfigureFrame ==
    UNCHANGED <<cfg, store, srvInit, op, outside, lastSeal, calls, i, kssLocals, err, initLocals,
                sets, initHist, unsealHist, token0>>

\* config.Unmarshal(&extConfig)
ConfigureDecode ==
    /\ pc = "cfg_decode"
    /\ \E ok \in BOOLEAN : Then(ok, "cfg_auth", "err_decode")
    /\ UNCHANGED started
    /\ ConfigureFrame

configureAuthMethods ==
    /\ pc = "cfg_auth"
    /\ \E ok \in BOOLEAN :
          /\ started' = Append(started, [step |-> "auth methods", ok |-> ok])
          /\ Then(ok, "cfg_policies", "err_auth")
    /\ ConfigureFrame

configurePolicies ==
    /\ pc = "cfg_policies"
    /\ \E ok \in BOOLEAN :
          /\ started' = Append(started, [step |-> "policies", ok |-> ok])
          /\ Then(ok, "cfg_secrets", "err_policies")
    /\ ConfigureFrame

configureSecretsEngines ==
    /\ pc = "cfg_secrets"
    /\ \E ok \in BOOLEAN :
          /\ started' = Append(started, [step |-> "secret engines", ok |-> ok])
          /\ Then(ok, "cfg_plugins", "err_secrets")
    /\ ConfigureFrame

configurePlugins ==
    /\ pc = "cfg_plugins"
    /\ \E ok \in BOOLEAN :
          /\ started' = Append(started, [step |-> "plugins", ok |-> ok])
          /\ Then(ok, "cfg_audit", "err_plugins")
    /\ ConfigureFrame

configureAuditDevices ==
    /\ pc = "cfg_audit"
    /\ \E ok \in BOOLEAN :
          /\ started' = Append(started, [step |-> "audit devices", ok |-> ok])
          /\ Then(ok, "cfg_startup", "err_audit")
    /\ ConfigureFrame

configureStartupSecrets ==
    /\ pc = "cfg_startup"
    /\ \E ok \in BOOLEAN :
          /\ started' = Append(started, [step |-> "startup secrets", ok |-> ok])
          /\ Then(ok, "cfg_groups", "err_startup")
    /\ ConfigureFrame

configureIdentityGroups ==
    /\ pc = "cfg_groups"
    /\ \E ok \in BOOLEAN :
          /\ started' = Append(started, [step |-> "identity groups", ok |-> ok])
          /\ Then(ok, "return", "err_groups")
    /\ ConfigureFrame

\* ------------------------------------------------------ the state machine
\* a controller no operation was called on yet
Unstarted ==
    /\ pc = "idle"
    /\ op = "none"
    /\ result = "none"
    /\ calls = 0
    /\ i = 0
    /\ keyID = EmptyString
    /\ val = EmptyString
    /\ after = "none"
    /\ err = "nil"
    /\ resp = NoResponse
    /\ rootToken = EmptyString
    /\ sets = <<>>
    /\ initCalls = 0
    /\ checkFailed = FALSE
    /\ srvInit0 = "unknown"
    /\ exists0 = {}
    /\ fetched = <<>>
    /\ submitted = <<>>
    /\ resps = <<>>
    /\ token0 = token
    /\ started = <<>>
    /\ lastSeal = NoSeal
    /\ requests = <<>>

Init ==
    /\ cfg \in {c \in ConfigSpace : New(c)}
    /\ \E S \in SUBSET AllKeys :
          /\ Cardinality(S) <= MaxSeeded
          /\ store = [k \in S |-> SeedValue]
    /\ srvInit = FALSE
    /\ token \in {EmptyString, CallerToken}
    /\ input = <<>>
    /\ live = <<>>
    /\ Unstarted

Next ==
    \/ CallInit
    \/ InitStatus
    \/ InitTestGet
    \/ InitTestSet
    \/ InitCheck
    \/ InitCall
    \/ InitUnseal
    \/ InitRecovery
    \/ KeyStoreSetGet
    \/ KeyStoreSetSet
    \/ InitWait
    \/ InitOrphan
    \/ InitRevoke
    \/ InitRoot
    \/ CallUnseal
    \/ UnsealGet
    \/ UnsealSend
    \/ CallRaftInitialized
    \/ RaftInitialized
    \/ CallConfigure
    \/ ConfigureGet
    \/ ConfigureDecode
    \/ configureAuthMethods
    \/ configurePolicies
    \/ configureSecretsEngines
    \/ configurePlugins
    \/ configureAuditDevices
    \/ configureStartupSecrets
    \/ configureIdentityGroups

Spec == Init /\ [][Next]_vars

\* ---------------------------------------------------------- construction
\* the configurations a caller may hand to New: share counts and thresholds
\* from below zero to above MaxShares
AnyConfigSpace ==
    [SecretShares : (0 - 1)..(MaxShares + 1),
     SecretThreshold : (0 - 1)..(MaxShares + 1),
     InitRootToken : {EmptyString, FixedRootToken},
     StoreRootToken : BOOLEAN,
     PreFlightChecks : BOOLEAN]

CallNew == Call("New", "new")

\* New's only check, and its two returns
NewReturn ==
    /\ pc = "new"
    /\ Return(IF New(cfg) THEN "ok" ELSE "err_config")
    /\ UNCHANGED <<env, op, outside, lastSeal, calls, i, kssLocals, err,
                   initLocals, sets, initHist, unsealHist, token0, started>>

InitNew ==
    /\ cfg \in AnyConfigSpace
    /\ store = [k \in {} |-> SeedValue]
    /\ srvInit = FALSE
    /\ token = EmptyString
    /\ input = <<>>
    /\ live = <<>>
    /\ Unstarted

NextNew ==
    \/ CallNew
    \/ NewReturn

SpecNew == InitNew /\ [][NextNew]_vars

\* what RaftJoin and the reconcilers below never touch: the key store's
\* locals and the histories of Init, Unseal and Configure
others == <<kssLocals, err, initLocals, sets, initCalls, checkFailed, exists0,
            unsealHist, token0, started, lastSeal>>

\* -------------------------------------------------------------- RaftJoin
\* strings.HasSuffix over texts written character by character
HasSuffix(s, suffix) ==
    /\ Len(s) >= Len(suffix)
    /\ SubSeq(s, Len(s) - Len(suffix) + 1, Len(s)) = suffix

\* the suffix of the first replica's pod name
OrdinalZero == <<"-", "0">>

\* the values of POD_NAME: unset, replicas 0, 1 and 10, and a bare "0"
PodNames ==
    {EmptyString, <<"v", "-", "0">>, <<"v", "-", "1">>, <<"v", "-", "1", "0">>,
     <<"0">>}

LeaderAddr == <<"https://leader:8200">>

\* the two places a CA certificate file may be named in
RaftCACertFile == <<"/raft/ca.crt">>
VaultCACertFile == <<"/vault/ca.crt">>

\* what ioutil.ReadFile yields for a readable file
FileContent(path) == <<"pem of ">> \o path

\* the argument of RaftJoin and the process environment it reads
RaftJoinInputs ==
    [leaderAPIAddr : {EmptyString, LeaderAddr},
     POD_NAME : PodNames,
     VAULT_RAFT_CACERT : {EmptyString, RaftCACertFile},
     VAULT_CACERT : {EmptyString, VaultCACertFile}]

CallRaftJoin == Call("RaftJoin", "raft_mode")

\* the choice between the two modes, and the short cut of the first replica
RaftJoinMode ==
    /\ pc = "raft_mode"
    /\ IF input.leaderAPIAddr # EmptyString
          THEN pc' = "raft_status" /\ UNCHANGED result
          ELSE IF HasSuffix(input.POD_NAME, OrdinalZero)
                  THEN Return("ok")
                  ELSE pc' = "raft_cacert" /\ UNCHANGED result
    /\ UNCHANGED <<env, op, outside, calls, i, srvInit0, others>>

\* Sys().InitStatus() in raft storage mode
RaftJoinStatus ==
    /\ pc = "raft_status"
    /\ \E e \in {"nil", "error"} :
          IF e # "nil"
             THEN Return("err_status") /\ UNCHANGED srvInit0
             ELSE /\ srvInit0' = IF srvInit THEN "initialized" ELSE "uninitialized"
                  /\ IF srvInit
                        THEN Return("ok")
                        ELSE pc' = "raft_cacert" /\ UNCHANGED result
    /\ UNCHANGED <<env, op, outside, calls, i, others>>

\* the file RaftJoin reads the leader's CA certificate from, if any
raftCacertFile ==
    IF input.VAULT_RAFT_CACERT = EmptyString
       THEN input.VAULT_CACERT
       ELSE input.VAULT_RAFT_CACERT

\* ioutil.ReadFile of the CA certificate; val holds request.LeaderCACert
RaftJoinCACert ==
    /\ pc = "raft_cacert"
    /\ IF raftCacertFile # EmptyString
          THEN \E readable \in BOOLEAN :
                  IF readable
                     THEN /\ val' = FileContent(raftCacertFile)
                          /\ pc' = "raft_join"
                          /\ UNCHANGED result
                     ELSE /\ Return("err_cacert")
                          /\ UNCHANGED val
          ELSE /\ val' = EmptyString
               /\ pc' = "raft_join"
               /\ UNCHANGED result
    /\ UNCHANGED <<env, op, outside, calls, i, srvInit0, keyID, after, err,
                   initLocals, sets, initCalls, checkFailed, exists0, unsealHist,
                   token0, started, lastSeal>>

\* mutant: the response's Joined is not looked at
JoinVerdict_IgnoresJoined(ok, joined) == IF ok THEN "ok" ELSE "err_join"

\* what RaftJoin returns for the outcome of the join request
JoinVerdict(ok, joined) ==
    IF ~ok THEN "err_join"
    ELSE IF joined THEN "ok"
    ELSE "err_not_joined"

\* Sys().RaftJoin(&request): the request fails, or the server answers with
\* Joined; a server that joined may come to report itself initialized
RaftJoinRequest ==
    /\ pc = "raft_join"
    /\ \E ok \in BOOLEAN, joined \in BOOLEAN :
          /\ ok \/ ~joined
          /\ requests' = Append(requests,
                                [LeaderAPIAddr |-> input.leaderAPIAddr,
                                 LeaderCACert |-> val,
                                 initialized |-> srvInit,
                                 ok |-> ok,
                                 joined |-> joined])
          /\ srvInit' \in IF joined THEN {srvInit, TRUE} ELSE {srvInit}
          /\ Return(JoinVerdict(ok, joined))
    /\ UNCHANGED <<cfg, store, token, op, input, live, calls, i, srvInit0, others>>

InitRaftJoin ==
    /\ cfg \in {c \in ConfigSpace : New(c) /\ c.SecretShares = 1
                                     /\ c.InitRootToken = EmptyString
                                     /\ c.StoreRootToken /\ c.PreFlightChecks}
    /\ store = [k \in {} |-> SeedValue]
    /\ srvInit \in BOOLEAN
    /\ token = EmptyString
    /\ input \in RaftJoinInputs
    /\ live = <<>>
    /\ Unstarted

NextRaftJoin ==
    \/ CallRaftJoin
    \/ RaftJoinMode
    \/ RaftJoinStatus
    \/ RaftJoinCACert
    \/ RaftJoinRequest

SpecRaftJoin == InitRaftJoin /\ [][NextRaftJoin]_vars

\* ------------------------------------- RaftInitialized against any store
\* the key stores RaftInitialized may meet: up to MaxSeeded names, each with
\* a value or with the empty value
SeededStores ==
    UNION {[S -> {SeedValue, EmptyString}] :
              S \in {T \in SUBSET AllKeys : Cardinality(T) <= MaxSeeded}}

InitRaftInitialized ==
    /\ cfg \in {c \in ConfigSpace : New(c)}
    /\ store \in SeededStores
    /\ srvInit \in BOOLEAN
    /\ token = EmptyString
    /\ input = <<>>
    /\ live = <<>>
    /\ Unstarted

NextRaftInitialized ==
    \/ CallRaftInitialized
    \/ RaftInitialized

SpecRaftInitialized == InitRaftInitialized /\ [][NextRaftInitialized]_vars

\* ------------------------------------------------- configureAuditDevices
\* how many records a section of the configuration document holds
MaxRecords == 2

Slash == "/"

\* strings.Trim(s, c) for a one-character cutset: s without its leading and
\* trailing runs of c
Trim(s, c) ==
    LET keep == {n \in 1..Len(s) : s[n] # c}
        first == CHOOSE n \in keep : \A m \in keep : n <= m
        last == CHOOSE n \in keep : \A m \in keep : m <= n
    IN  IF keep = {} THEN EmptyString ELSE SubSeq(s, first, last)

\* the audit device types and the explicit paths a record may carry
AuditTypes == {<<"f">>, <<"s">>}
AuditPaths == {<<"a">>, <<"/", "a", "/">>, <<"/", "f">>}

\* one record of the "audit" section: a type, and a path or none
AuditRecords ==
    [{"type"} -> AuditTypes]
        \cup {[type |-> t, path |-> p] : t \in AuditTypes, p \in AuditPaths}

\* the sections: up to MaxRecords records
AuditDocuments ==
    UNION {[1..n -> AuditRecords] : n \in 0..MaxRecords}

\* the path a record's device goes to
AuditPath(rec) ==
    IF "path" \in DOMAIN rec THEN Trim(rec.path, Slash) ELSE rec.type

\* the name the server's audit table lists a device enabled at path under:
\* one leading slash dropped, a trailing slash added where there is none
ServerMountKey(path) ==
    LET tail == IF Len(path) > 0 /\ path[1] = Slash
                   THEN SubSeq(path, 2, Len(path))
                   ELSE path
    IN  IF Len(tail) > 0 /\ tail[Len(tail)] = Slash
           THEN tail
           ELSE tail \o <<Slash>>

\* the audit tables a server may hold when reconciliation begins
AuditTables == SUBSET {ServerMountKey(t) : t \in AuditTypes \cup {<<"a">>}}

\* mutant: the mount table is not looked at
AlreadyMounted_Never(mounts, path) == FALSE

\* mounts[path+"/"] != nil
AlreadyMounted(mounts, path) == (path \o <<Slash>>) \in mounts

\* a sub-step of Configure is entered; result keeps what the previous run
\* returned until this one returns
CallSubStep(name) ==
    /\ pc = "idle"
    /\ calls < MaxCalls
    /\ calls' = calls + 1
    /\ op' = name
    /\ requests' = <<>>
    /\ err' = "nil"

\* the loop over the records moves to record n, or ends with success
AuditLoop(n) ==
    /\ i' = n
    /\ IF n > Len(input)
          THEN Return("ok")
          ELSE pc' = "audit_list" /\ UNCHANGED result

CallAuditDevices ==
    /\ CallSubStep("configureAuditDevices")
    /\ AuditLoop(1)
    /\ UNCHANGED <<env, input, live, srvInit0, kssLocals, initLocals, sets,
                   initCalls, checkFailed, exists0, unsealHist, token0, started,
                   lastSeal>>

\* Sys().ListAudit() for record i, and the look at mounts[path+"/"]
AuditList ==
    /\ pc = "audit_list"
    /\ \E e \in {"nil", "error"} :
          /\ err' = e
          /\ IF e # "nil"
                THEN Return("err_audit_list") /\ UNCHANGED i
                ELSE IF AlreadyMounted(live.audit, AuditPath(input[i]))
                        THEN AuditLoop(i + 1)
                        ELSE pc' = "audit_enable" /\ UNCHANGED <<i, result>>
    /\ UNCHANGED <<env, op, outside, calls, srvInit0, kssLocals, initLocals,
                   sets, initCalls, checkFailed, exists0, unsealHist, token0,
                   started, lastSeal>>

\* mapstructure.Decode and Sys().EnableAuditWithOptions(path, &options); a
\* request that failed may have been carried out all the same
AuditEnable ==
    /\ pc = "audit_enable"
    /\ \E outcome \in {"ok", "decode", "error"} :
          LET path == AuditPath(input[i])
              mounted == [live EXCEPT !.audit = @ \cup {ServerMountKey(path)}]
          IN  IF outcome = "decode"
                 THEN /\ Return("err_audit_options")
                      /\ UNCHANGED <<i, live, requests>>
                 ELSE /\ requests' = Append(requests,
                                            [record |-> i,
                                             path |-> path,
                                             ok |-> outcome = "ok"])
                      /\ IF outcome = "ok"
                            THEN live' = mounted /\ AuditLoop(i + 1)
                            ELSE /\ live' \in {live, mounted}
                                 /\ Return("err_audit_enable")
                                 /\ UNCHANGED i
    /\ UNCHANGED <<env, op, input, calls, srvInit0, others>>

InitAuditDevices ==
    /\ cfg \in {c \in ConfigSpace : New(c) /\ c.SecretShares = 1
                                     /\ c.InitRootToken = EmptyString
                                     /\ c.StoreRootToken /\ c.PreFlightChecks}
    /\ store = [k \in {} |-> SeedValue]
    /\ srvInit = TRUE
    /\ token = EmptyString
    /\ input \in AuditDocuments
    /\ live \in [audit : AuditTables]
    /\ Unstarted

NextAuditDevices ==
    \/ CallAuditDevices
    \/ AuditList
    \/ AuditEnable

SpecAuditDevices == InitAuditDevices /\ [][NextAuditDevices]_vars

\* ----------------------------------------------- configureIdentityGroups
\* strings.TrimRight(s, c) for a one-character cutset
TrimRight(s, c) ==
    LET keep == {n \in 1..Len(s) : s[n] # c}
        last == CHOOSE n \in keep : \A m \in keep : m <= n
    IN  IF keep = {} THEN EmptyString ELSE SubSeq(s, 1, last)

External == "external"

\* the records of the "groups" section: a name and a type
GroupRecords ==
    {[name |-> "g1", type |-> External],
     [name |-> "g2", type |-> External],
     [name |-> "g1", type |-> "internal"]}

\* the records of the "group-aliases" section: a name, the path of an auth
\* mount, written with or without its trailing slash, and a group; mount c
\* is not on the server
AliasRecords ==
    {[name |-> "n", mountpath |-> <<"a">>, group |-> "g1"],
     [name |-> "n", mountpath |-> <<"b", "/">>, group |-> "g1"],
     [name |-> "m", mountpath |-> <<"a">>, group |-> "g1"],
     [name |-> "n", mountpath |-> <<"c">>, group |-> "g1"]}

\* the two sections, each of up to MaxRecords records
GroupDocuments ==
    [groups : UNION {[1..n -> GroupRecords] : n \in 0..MaxRecords},
     aliases : UNION {[1..n -> AliasRecords] : n \in 0..MaxRecords}]

\* the IDs the server hands out
ID(n) == <<"id", n>>

\* Sys().ListAuth(): the auth mounts of the server and their accessors
AuthMounts ==
    [p \in {<<"a", "/">>, <<"b", "/">>} |->
        IF p = <<"a", "/">> THEN "accessor-a" ELSE "accessor-b"]

\* the identity tables a server may hold when reconciliation begins: group
\* g1 or none, and an alias "n" on mount a or none
GroupTables ==
    [groups : {[g \in {} |-> ID(0)], [g \in {"g1"} |-> ID(1)]},
     aliases : {<<>>, <<[id |-> ID(2), name |-> "n",
                         mount_accessor |-> "accessor-a",
                         canonical_id |-> ID(1)]>>},
     next : {3}]

GroupCreatePath == <<"identity/group">>
GroupTunePath(name) == <<"identity/group/name/", name>>
AliasCreatePath == <<"identity/group-alias">>
AliasTunePath(id) == <<"identity/group-alias/id/">> \o id

\* the payload written for a group record
GroupConfig(rec) == [name |-> rec.name, type |-> rec.type]

\* mutant: readVaultGroup's answer is taken for nil whatever it is
GroupMissing_Always(name) == TRUE

\* readVaultGroup's answer is nil
GroupMissing(name) == name \notin DOMAIN live.groups

\* getVaultAuthMountAccessor's key into the auth mounts
AuthMountKey(path) == TrimRight(path, Slash) \o <<Slash>>

\* the payload written for an alias record
AliasConfig(rec) ==
    [name |-> rec.name,
     mount_accessor |-> AuthMounts[AuthMountKey(rec.mountpath)],
     canonical_id |-> live.groups[rec.group]]

\* mutant: an alias of the desired name matches, on whatever mount it is
AliasMatches_ByName(alias, name, accessor) == alias.name = name

\* findVaultGroupAliasIDFromNameAndMount's test on one listed alias
AliasMatches(alias, name, accessor) ==
    alias.name = name /\ alias.mount_accessor = accessor

\* findVaultGroupAliasIDFromNameAndMount: the ID of the first listed alias
\* that matches, or the empty string
findVaultGroupAliasIDFromNameAndMount(name, accessor) ==
    LET hits == {n \in 1..Len(live.aliases) :
                    AliasMatches(live.aliases[n], name, accessor)}
        first == CHOOSE n \in hits : \A m \in hits : n <= m
    IN  IF hits = {} THEN EmptyString ELSE live.aliases[first].id

\* the IDs of the server's aliases of that name on that mount
AliasesLike(name, accessor) ==
    {live.aliases[n].id : n \in {m \in 1..Len(live.aliases) :
                                    /\ live.aliases[m].name = name
                                    /\ live.aliases[m].mount_accessor = accessor}}

\* the server's tables after it carried out Logical().Write(path, data)
Written(path, data) ==
    IF path = GroupCreatePath
       THEN IF data.name \in DOMAIN live.groups
               THEN live
               ELSE [live EXCEPT
                        !.groups = [g \in DOMAIN live.groups \cup {data.name} |->
                                       IF g = data.name THEN ID(live.next)
                                                        ELSE live.groups[g]],
                        !.next = @ + 1]
    ELSE IF path = AliasCreatePath
       THEN [live EXCEPT
                !.aliases = Append(@, [id |-> ID(live.next),
                                       name |-> data.name,
                                       mount_accessor |-> data.mount_accessor,
                                       canonical_id |-> data.canonical_id]),
                !.next = @ + 1]
    ELSE IF path[1] = AliasTunePath(ID(0))[1]
       THEN [live EXCEPT
                !.aliases = [n \in 1..Len(@) |->
                                IF @[n].id = SubSeq(path, 2, Len(path))
                                   THEN [id |-> @[n].id,
                                         name |-> data.name,
                                         mount_accessor |-> data.mount_accessor,
                                         canonical_id |-> data.canonical_id]
                                   ELSE @[n]]]
    ELSE live

\* the loop over the aliases moves to record n, or ends with success
AliasLoop(n) ==
    /\ i' = n
    /\ IF n > Len(input.aliases)
          THEN Return("ok")
          ELSE pc' = "alias_lookup" /\ UNCHANGED result

\* the loop over the groups moves to record n, or gives way to the aliases
GroupLoop(n) ==
    IF n > Len(input.groups)
       THEN AliasLoop(1)
       ELSE i' = n /\ pc' = "group_read" /\ UNCHANGED result

CallIdentityGroups ==
    /\ CallSubStep("configureIdentityGroups")
    /\ GroupLoop(1)
    /\ UNCHANGED <<env, input, live, srvInit0, kssLocals, initLocals, sets,
                   initCalls, checkFailed, exists0, unsealHist, token0, started,
                   lastSeal>>

\* readVaultGroup, the test of the type, and the choice of the path to write;
\* keyID holds the path and val the payload
GroupRead ==
    /\ pc = "group_read"
    /\ \E e \in {"nil", "error"} :
          /\ err' = e
          /\ IF e # "nil"
                THEN Return("err_group_read") /\ UNCHANGED <<keyID, val>>
                ELSE IF input.groups[i].type # External
                        THEN Return("err_group_type") /\ UNCHANGED <<keyID, val>>
                        ELSE /\ keyID' = IF GroupMissing(input.groups[i].name)
                                            THEN GroupCreatePath
                                            ELSE GroupTunePath(input.groups[i].name)
                             /\ val' = GroupConfig(input.groups[i])
                             /\ pc' = "group_write"
                             /\ UNCHANGED result
    /\ UNCHANGED <<env, op, outside, calls, i, srvInit0, after, initLocals, sets,
                   initCalls, checkFailed, exists0, unsealHist, token0, started,
                   lastSeal>>

\* writeWithWarningCheck(path, config); a write that failed may have been
\* carried out all the same
WriteRequest(section, existing) ==
    \E ok \in BOOLEAN :
        /\ requests' = Append(requests,
                              [section |-> section,
                               record |-> i,
                               path |-> keyID,
                               data |-> val,
                               existing |-> existing,
                               ok |-> ok])
        /\ err' = IF ok THEN "nil" ELSE "error"
        /\ live' \in IF ok THEN {Written(keyID, val)}
                           ELSE {live, Written(keyID, val)}

GroupWrite ==
    /\ pc = "group_write"
    /\ WriteRequest("group",
                    {g \in DOMAIN live.groups : g = input.groups[i].name})
    /\ IF err' = "nil"
          THEN GroupLoop(i + 1)
          ELSE Return("err_group_write") /\ UNCHANGED i
    /\ UNCHANGED <<env, op, input, calls, srvInit0, kssLocals, initLocals, sets,
                   initCalls, checkFailed, exists0, unsealHist, token0, started,
                   lastSeal>>

\* getVaultAuthMountAccessor, getVaultGroupID and
\* findVaultGroupAliasIDFromNameAndMount for alias record i, and the choice
\* of the path to write
AliasLookup ==
    /\ pc = "alias_lookup"
    /\ \E e \in {"nil", "mounts", "group", "find"} :
          LET rec == input.aliases[i]
          IN  /\ err' = IF e = "nil" THEN "nil" ELSE "error"
              /\ IF e = "mounts" \/ AuthMountKey(rec.mountpath) \notin DOMAIN AuthMounts
                    THEN Return("err_alias_mount") /\ UNCHANGED <<keyID, val>>
                 ELSE IF e = "group" \/ GroupMissing(rec.group)
                    THEN Return("err_alias_group") /\ UNCHANGED <<keyID, val>>
                 ELSE IF e = "find"
                    THEN Return("err_alias_find") /\ UNCHANGED <<keyID, val>>
                 ELSE LET ga == findVaultGroupAliasIDFromNameAndMount(
                                    rec.name, AliasConfig(rec).mount_accessor)
                      IN  /\ keyID' = IF ga = EmptyString
                                         THEN AliasCreatePath
                                         ELSE AliasTunePath(ga)
                          /\ val' = AliasConfig(rec)
                          /\ pc' = "alias_write"
                          /\ UNCHANGED result
    /\ UNCHANGED <<env, op, outside, calls, i, srvInit0, after, initLocals, sets,
                   initCalls, checkFailed, exists0, unsealHist, token0, started,
                   lastSeal>>

AliasWrite ==
    /\ pc = "alias_write"
    /\ WriteRequest("alias", AliasesLike(val.name, val.mount_accessor))
    /\ IF err' = "nil"
          THEN AliasLoop(i + 1)
          ELSE Return("err_alias_write") /\ UNCHANGED i
    /\ UNCHANGED <<env, op, input, calls, srvInit0, kssLocals, initLocals, sets,
                   initCalls, checkFailed, exists0, unsealHist, token0, started,
                   lastSeal>>

InitIdentityGroups ==
    /\ cfg \in {c \in ConfigSpace : New(c) /\ c.SecretShares = 1
                                     /\ c.InitRootToken = EmptyString
                                     /\ c.StoreRootToken /\ c.PreFlightChecks}
    /\ store = [k \in {} |-> SeedValue]
    /\ srvInit = TRUE
    /\ token = EmptyString
    /\ input \in GroupDocuments
    /\ live \in GroupTables
    /\ Unstarted

NextIdentityGroups ==
    \/ CallIdentityGroups
    \/ GroupRead
    \/ GroupWrite
    \/ AliasLookup
    \/ AliasWrite

SpecIdentityGroups == InitIdentityGroups /\ [][NextIdentityGroups]_vars

\* ----------------------------------------- the pki startup secret
Newline == "\n"

\* the keys and the values of a pki record's data: texts written character
\* by character, one of them empty and one of two lines
PkiKeys == {"key", "cert", "ca"}
PkiValues == {<<"k">>, <<"c">>, <<"c", Newline, "k">>, EmptyString}

\* data["data"] of a pki record: any of the keys, each with a value
PkiData == UNION {[K -> PkiValues] : K \in SUBSET PkiKeys}

PkiPath == <<"pki/config/ca">>

\* the orders `for _, v := range pkiData` may visit the keys in
RangeOrders(m) ==
    {o \in [1..Cardinality(DOMAIN m) -> DOMAIN m] :
        \A a, b \in 1..Cardinality(DOMAIN m) : a # b => o[a] # o[b]}

\* strings.Join(parts, sep)
RECURSIVE Join(_, _)
Join(parts, sep) ==
    IF Len(parts) = 0 THEN EmptyString
    ELSE IF Len(parts) = 1 THEN parts[1]
    ELSE parts[1] \o sep \o Join(Tail(parts), sep)

\* mutant: one value is taken for enough
TooFewValues_OneIsEnough(pkiSlice) == Len(pkiSlice) < 1

\* generateCertPayload's test on the number of values
TooFewValues(pkiSlice) == Len(pkiSlice) < 2

CallPkiSecret ==
    /\ CallSubStep("pki startup secret")
    /\ pc' = "pki_payload"
    /\ UNCHANGED <<env, input, live, result, i, srvInit0, kssLocals, initLocals,
                   sets, initCalls, checkFailed, exists0, unsealHist, token0,
                   started, lastSeal>>

\* generateCertPayload(data["data"]): the values in the order the map is
\* ranged over, the test on their number, and the joined bundle in val
generateCertPayload ==
    /\ pc = "pki_payload"
    /\ \E o \in RangeOrders(input) :
          LET pkiSlice == [n \in 1..Len(o) |-> input[o[n]]]
          IN  IF TooFewValues(pkiSlice)
                 THEN Return("err_pki_payload") /\ UNCHANGED val
                 ELSE /\ val' = [pem_bundle |-> Join(pkiSlice, <<Newline>>)]
                      /\ pc' = "pki_write"
                      /\ UNCHANGED result
    /\ UNCHANGED <<env, op, outside, calls, i, srvInit0, keyID, after, err,
                   initLocals, sets, initCalls, checkFailed, exists0, unsealHist,
                   token0, started, lastSeal>>

\* writeWithWarningCheck(path, certData)
PkiWrite ==
    /\ pc = "pki_write"
    /\ \E ok \in BOOLEAN :
          /\ requests' = Append(requests,
                                [path |-> PkiPath, data |-> val, ok |-> ok])
          /\ err' = IF ok THEN "nil" ELSE "error"
          /\ Return(IF ok THEN "ok" ELSE "err_pki_write")
    /\ UNCHANGED <<env, op, input, live, calls, i, srvInit0, kssLocals,
                   initLocals, sets, initCalls, checkFailed, exists0, unsealHist,
                   token0, started, lastSeal>>

InitPkiSecret ==
    /\ cfg \in {c \in ConfigSpace : New(c) /\ c.SecretShares = 1
                                     /\ c.InitRootToken = EmptyString
                                     /\ c.StoreRootToken /\ c.PreFlightChecks}
    /\ store = [k \in {} |-> SeedValue]
    /\ srvInit = TRUE
    /\ token = EmptyString
    /\ input \in PkiData
    /\ live = <<>>
    /\ Unstarted

NextPkiSecret ==
    \/ CallPkiSecret
    \/ generateCertPayload
    \/ PkiWrite

SpecPkiSecret == InitPkiSecret /\ [][NextPkiSecret]_vars

\* ------------------------------------------- Unseal against any key store
\* the key stores Unseal may meet: any of the unseal key names 0..MaxShares,
\* so also stores with a gap in the indices
UnsealStores ==
    UNION {[S -> {SeedValue}] :
              S \in SUBSET {unsealKeyForID(n) : n \in 0..MaxShares}}

InitUnsealOnly ==
    /\ cfg \in {c \in ConfigSpace : New(c) /\ c.SecretShares = 1
                                     /\ c.InitRootToken = EmptyString
                                     /\ c.StoreRootToken /\ c.PreFlightChecks}
    /\ store \in UnsealStores
    /\ srvInit = TRUE
    /\ token = EmptyString
    /\ input = <<>>
    /\ live = <<>>
    /\ Unstarted

NextUnseal ==
    \/ CallUnseal
    \/ UnsealGet
    \/ UnsealSend

\* Unseal is one thread of blocking calls: a lookup or an unseal request that
\* was started returns
SpecUnseal ==
    /\ InitUnsealOnly
    /\ [][NextUnseal]_vars
    /\ WF_vars(UnsealGet)
    /\ WF_vars(UnsealSend)

\* --------------------------------------------- Init, then Unseal, end to end
\* every configuration New accepts, without a fixed root token (Init then
\* never waits for somebody else to unseal the server)
EndToEndConfigs ==
    {c \in AnyConfigSpace : New(c) /\ c.InitRootToken = EmptyString}

InitEndToEnd ==
    /\ cfg \in EndToEndConfigs
    /\ store = [k \in {} |-> SeedValue]
    /\ srvInit = FALSE
    /\ token = EmptyString
    /\ input = <<>>
    /\ live = <<>>
    /\ Unstarted

\* Unseal is called right after an Init that initialized the server itself
\* and was handed all the unseal shares it asked for
CallUnsealAfterInit ==
    /\ op = "Init"
    /\ result = "ok"
    /\ initCalls = 1
    /\ Len(resp.Keys) = cfg.SecretShares
    /\ CallUnseal

NextEndToEnd ==
    \/ CallInit
    \/ InitStatus
    \/ InitTestGet
    \/ InitTestSet
    \/ InitCheck
    \/ InitCall
    \/ InitUnseal
    \/ InitRecovery
    \/ KeyStoreSetGet
    \/ KeyStoreSetSet
    \/ InitRoot
    \/ CallUnsealAfterInit
    \/ UnsealGet
    \/ UnsealSend

\* Init and Unseal are threads of blocking calls: a call that was started
\* returns
SpecEndToEnd ==
    /\ InitEndToEnd
    /\ [][NextEndToEnd]_vars
    /\ WF_vars(NextEndToEnd)

\* ------------------------------------------- two controllers running Init
\* Each controller has its own admin client and its own locals; the server
\* and the key store are shared. A controller's locals are one record of
\* live; requests lists the KVService.Set calls of both, in order.
Controllers == {"a", "b"}

\* a controller that has just entered Init
Entered ==
    [pc |-> "init_status", result |-> "running", i |-> 0, keyID |-> EmptyString,
     val |-> EmptyString, after |-> "none", err |-> "nil", resp |-> NoResponse,
     initCalls |-> 0]

\* what the concurrent steps leave alone: the single controller's variables
single ==
    <<cfg, token, pc, op, result, calls, i, kssLocals, err, initLocals, sets,
      initHist, unsealHist, token0, started, lastSeal, input>>

InitConcurrent ==
    /\ cfg \in {c \in ConfigSpace : New(c) /\ c.InitRootToken = EmptyString}
    /\ store = [k \in {} |-> SeedValue]
    /\ srvInit = FALSE
    /\ token = EmptyString
    /\ input = <<>>
    /\ live = [c \in Controllers |-> Entered]
    /\ Unstarted

\* controller c moves on to position p, or returns res
Goes(c, p) == [live[c] EXCEPT !.pc = p]

Returns(c, res) == [live[c] EXCEPT !.pc = "idle", !.result = res]

\* one KVService.Set by controller c
SetBy(c, key, value, ok) ==
    /\ requests' = Append(requests, [by |-> c, key |-> key, val |-> value, ok |-> ok])
    /\ store' = IF ok THEN KVSet(key, value) ELSE store

\* Sys().InitStatus(), and the return of an initialized server
ConcInitStatus(c) ==
    /\ live[c].pc = "init_status"
    /\ \E e \in {"nil", "error"} :
          live' = [live EXCEPT ![c] =
                      IF e # "nil"
                         THEN Returns(c, "err_status")
                         ELSE IF AlreadyInitialized(srvInit)
                                 THEN Returns(c, "ok")
                                 ELSE Goes(c, IF cfg.PreFlightChecks
                                                 THEN "init_test_get"
                                                 ELSE "init_check")]
    /\ UNCHANGED <<single, store, srvInit, requests>>

\* kvTester.Test, its Get
ConcInitTestGet(c) ==
    /\ live[c].pc = "init_test_get"
    /\ \E g \in KVGet(testKey) :
          live' = [live EXCEPT ![c] =
                      IF TestProceeds(g.err)
                         THEN [Goes(c, "init_test_set") EXCEPT !.err = g.err]
                         ELSE [Returns(c, "err_test") EXCEPT !.err = g.err]]
    /\ UNCHANGED <<single, store, srvInit, requests>>

\* kvTester.Test, its Set
ConcInitTestSet(c) ==
    /\ live[c].pc = "init_test_set"
    /\ \E ok \in BOOLEAN :
          /\ SetBy(c, testKey, testKey, ok)
          /\ live' = [live EXCEPT ![c] =
                         IF ok THEN Goes(c, "init_check")
                               ELSE Returns(c, "err_test")]
    /\ UNCHANGED <<single, srvInit>>

\* Init's "test every key" loop, one key per step
ConcInitCheck(c) ==
    /\ live[c].pc = "init_check"
    /\ IF live[c].i < Len(InitKeys)
          THEN \E g \in KVGet(InitKeys[live[c].i + 1]) :
                  LET verdict == PreValidate(keyStoreNotFound(g)) IN
                  live' = [live EXCEPT ![c] =
                              IF verdict = "continue"
                                 THEN [live[c] EXCEPT !.err = g.err, !.i = @ + 1]
                                 ELSE [Returns(c, verdict) EXCEPT !.err = g.err]]
          ELSE live' = [live EXCEPT ![c] = Goes(c, "init_call")]
    /\ UNCHANGED <<single, store, srvInit, requests>>

\* mutant: Init goes on after a failed remote init call
InitCallFailed_Ignored(e) == FALSE

\* Init's test of the error of Sys().Init()
InitCallFailed(e) == e # "nil"

\* Sys().Init(): the server initializes for at most one caller; a call may
\* also fail after the server has acted
ConcInitCall(c) ==
    /\ live[c].pc = "init_call"
    /\ \/ /\ srvInit' \in (IF srvInit THEN {TRUE} ELSE BOOLEAN)
          /\ live' = [live EXCEPT ![c] =
                         IF InitCallFailed("error")
                            THEN [Returns(c, "err_init") EXCEPT !.initCalls = @ + 1]
                            ELSE [Goes(c, "init_unseal") EXCEPT !.initCalls = @ + 1,
                                                                 !.i = 0]]
       \/ /\ ~srvInit
          /\ srvInit' = TRUE
          /\ \E r \in InitResponses(InitRequest) :
                live' = [live EXCEPT ![c] =
                            IF InitCallFailed("nil")
                               THEN [Returns(c, "err_init") EXCEPT !.initCalls = @ + 1]
                               ELSE [Goes(c, "init_unseal") EXCEPT !.initCalls = @ + 1,
                                                                    !.i = 0, !.resp = r]]
    /\ UNCHANGED <<single, store, requests>>

\* the loop over resp.Keys
ConcInitUnseal(c) ==
    /\ live[c].pc = "init_unseal"
    /\ live' = [live EXCEPT ![c] =
                   IF live[c].i < Len(live[c].resp.Keys)
                      THEN [Goes(c, "kss_get") EXCEPT
                               !.keyID = unsealKeyForID(live[c].i),
                               !.val = live[c].resp.Keys[live[c].i + 1],
                               !.after = "unseal"]
                      ELSE [Goes(c, "init_recovery") EXCEPT !.i = 0]]
    /\ UNCHANGED <<single, store, srvInit, requests>>

\* the loop over resp.RecoveryKeys
ConcInitRecovery(c) ==
    /\ live[c].pc = "init_recovery"
    /\ live' = [live EXCEPT ![c] =
                   IF live[c].i < Len(live[c].resp.RecoveryKeys)
                      THEN [Goes(c, "kss_get") EXCEPT
                               !.keyID = recoveryKeyForID(live[c].i),
                               !.val = live[c].resp.RecoveryKeys[live[c].i + 1],
                               !.after = "recovery"]
                      ELSE Goes(c, "init_root")]
    /\ UNCHANGED <<single, store, srvInit, requests>>

\* keyStoreSet, its lookup
ConcKeyStoreSetGet(c) ==
    /\ live[c].pc = "kss_get"
    /\ \E g \in KVGet(live[c].keyID) :
          live' = [live EXCEPT ![c] =
                      IF keyStoreNotFound(g).notFound
                         THEN [Goes(c, "kss_set") EXCEPT !.err = g.err]
                         ELSE [Returns(c, StoreError(live[c].after)) EXCEPT !.err = g.err]]
    /\ UNCHANGED <<single, store, srvInit, requests>>

\* keyStoreSet, its Set, and Init's step after a stored value
ConcKeyStoreSetSet(c) ==
    /\ live[c].pc = "kss_set"
    /\ \E ok \in BOOLEAN :
          /\ SetBy(c, live[c].keyID, live[c].val, ok)
          /\ live' = [live EXCEPT ![c] =
                         IF keyStoreSet(ok) = "nil"
                            THEN IF live[c].after = "root"
                                    THEN Returns(c, "ok")
                                    ELSE [Goes(c, IF live[c].after = "unseal"
                                                     THEN "init_unseal"
                                                     ELSE "init_recovery")
                                             EXCEPT !.i = @ + 1]
                            ELSE Returns(c, StoreError(live[c].after))]
    /\ UNCHANGED <<single, srvInit>>

\* the end of Init: the root token is stored, or not
ConcInitRoot(c) ==
    /\ live[c].pc = "init_root"
    /\ live' = [live EXCEPT ![c] =
                   IF cfg.StoreRootToken
                      THEN [Goes(c, "kss_get") EXCEPT
                               !.keyID = rootTokenKey,
                               !.val = live[c].resp.RootToken,
                               !.after = "root"]
                      ELSE Returns(c, "ok")]
    /\ UNCHANGED <<single, store, srvInit, requests>>

NextConcurrent ==
    \E c \in Controllers :
        \/ ConcInitStatus(c)
        \/ ConcInitTestGet(c)
        \/ ConcInitTestSet(c)
        \/ ConcInitCheck(c)
        \/ ConcInitCall(c)
        \/ ConcInitUnseal(c)
        \/ ConcInitRecovery(c)
        \/ ConcKeyStoreSetGet(c)
        \/ ConcKeyStoreSetSet(c)
        \/ ConcInitRoot(c)

SpecConcurrent == InitConcurrent /\ [][NextConcurrent]_vars

\* ================================================================ claims
\* Init has returned success to a call that found the server uninitialized
InitSucceeded ==
    pc = "idle" /\ op = "Init" /\ result = "ok" /\ srvInit0 = "uninitialized"

\* the key store holds value v under name k
Holds(k, v) == k \in DOMAIN store /\ store[k] = v

\* the running call issued a failed Set for one of the returned shares
ShareWriteFailed ==
    \E n \in 1..Len(sets) :
        /\ ~sets[n].ok
        /\ sets[n].key \notin {rootTokenKey, testKey}

\* C1: when Init runs against an uninitialized server and returns success,
\* the key store holds every returned unseal share under unsealKeyForID of
\* its index and every returned recovery share under recoveryKeyForID of its
\* index; and an Init one of whose share writes failed does not return
\* success.
C1_SharesPersisted ==
    /\ InitSucceeded =>
          /\ initCalls = 1
          /\ \A n \in 1..Len(resp.Keys) :
                Holds(unsealKeyForID(n - 1), resp.Keys[n])
          /\ \A n \in 1..Len(resp.RecoveryKeys) :
                Holds(recoveryKeyForID(n - 1), resp.RecoveryKeys[n])
    /\ (op = "Init" /\ ShareWriteFailed) =>
          (pc = "idle" /\ result # "ok")

C1_Witness ==
    /\ InitSucceeded
    /\ Len(resp.Keys) = 2
    /\ Len(resp.RecoveryKeys) = 2
    /\ Holds(unsealKeyForID(1), UnsealShare(1))
    /\ Holds(recoveryKeyForID(1), RecoveryShare(1))

\* C2: an Init that finds the server initialized returns success at once,
\* having issued no key-store Set and no remote init call and having left
\* the client's token as it was, whatever the configuration and also when
\* it repeats an earlier Init.
C2_InitializedIsNoOp ==
    (op = "Init" /\ srvInit0 = "initialized") =>
        /\ pc = "idle"
        /\ result = "ok"
        /\ sets = <<>>
        /\ initCalls = 0
        /\ token = token0

C2_Witness ==
    /\ op = "Init"
    /\ srvInit0 = "initialized"
    /\ calls = 2
    /\ token = GeneratedRootToken
    /\ Holds(unsealKeyForID(0), UnsealShare(0))

\* C3: if the root-token key or one of the unseal keys 0..SecretShares is
\* in the key store when Init finds the server uninitialized, Init never
\* issues the remote init call and fails, with the conflict error unless
\* the pre-flight probe has already failed it.
C3_ConflictStopsInit ==
    (op = "Init" /\ srvInit0 = "uninitialized" /\ exists0 # {}) =>
        /\ initCalls = 0
        /\ pc = "idle" => result \in {"err_exists", "err_test"}

\* C4: if a pre-validation lookup of Init ends in a store error other than
\* not-found, Init never issues the remote init call and does not succeed.
C4_LookupErrorStopsInit ==
    (op = "Init" /\ srvInit0 = "uninitialized" /\ checkFailed) =>
        /\ initCalls = 0
        /\ pc = "idle" => result \notin {"ok", "running"}

\* C5: every key-store Set the controller issues follows a lookup of that
\* name that returned not-found, so no Set goes to a name the store holds.
C5_NeverOverwrites ==
    \A n \in 1..Len(sets) :
        /\ sets[n].lookup = "notfound"
        /\ ~sets[n].existed

\* the root token an Init leaves valid: the fixed one if configured, else
\* the generated one
ResultingRootToken ==
    IF cfg.InitRootToken # EmptyString THEN cfg.InitRootToken ELSE resp.RootToken

\* C6: after a successful Init with StoreRootToken the value under the
\* root-token key is the resulting root token; without StoreRootToken Init
\* issues no Set for the root-token key.
C6_RootTokenStored ==
    /\ (InitSucceeded /\ cfg.StoreRootToken) =>
          Holds(rootTokenKey, ResultingRootToken)
    /\ (op = "Init" /\ ~cfg.StoreRootToken) =>
          \A n \in 1..Len(sets) : sets[n].key # rootTokenKey

\* the indices 0, 1, 2, ... in order, as long as q
Counting(q) == q = [n \in 1..Len(q) |-> n - 1]

\* responses that report sealed with strictly increasing non-zero progress
\* and then one that reports unsealed
ProgressToUnsealed(q) ==
    /\ Len(q) > 0
    /\ ~q[Len(q)].sealed
    /\ \A n \in 1..(Len(q) - 1) :
          /\ q[n].sealed
          /\ q[n].progress > 0
          /\ n > 1 => q[n].progress > q[n - 1].progress

\* C7: Unseal fetches and submits the shares in index order 0, 1, 2, ...,
\* each fetched before it is submitted; and when the responses report
\* sealed with strictly increasing non-zero progress and then unsealed,
\* Unseal has returned success at that response, with no share of a higher
\* index fetched or submitted.
C7_UnsealInOrder ==
    op = "Unseal" =>
        /\ Counting(fetched)
        /\ Counting(submitted)
        /\ Len(submitted) <= Len(fetched)
        /\ Len(fetched) <= Len(submitted) + 1
        /\ ProgressToUnsealed(resps) =>
              /\ pc = "idle"
              /\ result = "ok"
              /\ Len(fetched) = Len(resps)
              /\ Len(submitted) = Len(resps)

C7_Witness ==
    /\ op = "Unseal"
    /\ ProgressToUnsealed(resps)
    /\ Len(resps) = 3
    /\ fetched = <<0, 1, 2>>
    /\ submitted = <<0, 1, 2>>

\* C8: a response that reports sealed with progress 0 ends Unseal at once
\* with the bad-key error; a failed fetch ends it at that round before any
\* submission of the round; a failed unseal request ends it at that round;
\* in each case no share of a later index is fetched or submitted.
C8_UnsealFailsFast ==
    op = "Unseal" =>
        /\ \A n \in 1..Len(resps) :
              (resps[n].sealed /\ resps[n].progress = 0) =>
                  /\ n = Len(resps)
                  /\ pc = "idle"
                  /\ result = "err_bad_key"
                  /\ Len(fetched) = n
                  /\ Len(submitted) = n
        /\ (Len(fetched) > 0 /\ err # "nil") =>
              /\ pc = "idle"
              /\ result = "err_unseal_get"
              /\ Len(submitted) = Len(fetched) - 1
        /\ Len(submitted) > Len(resps) =>
              /\ pc = "idle"
              /\ result = "err_unseal_send"
              /\ Len(submitted) = Len(resps) + 1
              /\ Len(fetched) = Len(submitted)

C8_Witness ==
    /\ op = "Unseal"
    /\ result = "err_bad_key"
    /\ Len(resps) = 2
    /\ resps[2].progress = 0
    /\ submitted = <<0, 1>>

\* C9 as claimed: after every Configure call the client's token is empty.
C9_TokenAlwaysCleared ==
    (op = "Configure" /\ pc = "idle") => token = EmptyString

\* C9 as amended: after a Configure call that retrieved the root token the
\* client's token is empty, however the call ended; a Configure call that
\* could not retrieve the root token leaves the client's token as it found
\* it.
C9_TokenClearedOnceSet ==
    (op = "Configure" /\ pc = "idle") =>
        IF err # "nil"
            THEN result = "err_get_root" /\ token = token0
            ELSE token = EmptyString

C9_Witness ==
    /\ op = "Configure"
    /\ pc = "idle"
    /\ result = "err_policies"
    /\ token0 = CallerToken
    /\ token = EmptyString

ConfigureOrder ==
    <<"auth methods", "policies", "secret engines", "plugins", "audit devices",
      "startup secrets", "identity groups">>

ConfigureErrors ==
    <<"err_auth", "err_policies", "err_secrets", "err_plugins", "err_audit",
      "err_startup", "err_groups">>

\* C10: the sub-steps Configure has run are an initial stretch of auth
\* methods, policies, secret engines, plugins, audit devices, startup
\* secrets, identity groups; every sub-step before the latest one has
\* succeeded; a failed sub-step is the last one run and Configure has
\* returned its error; and Configure returns success only after all seven
\* have succeeded.
C10_SubStepsInOrder ==
    op = "Configure" =>
        /\ Len(started) <= Len(ConfigureOrder)
        /\ \A n \in 1..Len(started) :
              /\ started[n].step = ConfigureOrder[n]
              /\ n < Len(started) => started[n].ok
              /\ ~started[n].ok =>
                    /\ n = Len(started)
                    /\ pc = "idle"
                    /\ result = ConfigureErrors[n]
        /\ result = "ok" =>
              /\ Len(started) = Len(ConfigureOrder)
              /\ \A n \in 1..Len(started) : started[n].ok

C10_Witness ==
    /\ op = "Configure"
    /\ pc = "idle"
    /\ result = "err_audit"
    /\ Len(started) = 5
    /\ ~started[5].ok

\* New has returned
Constructed == op = "New" /\ pc = "idle"

\* C11: construction succeeds for every configuration with
\* SecretShares >= SecretThreshold >= 1, and fails with the configuration
\* error for every configuration with SecretShares < SecretThreshold.
C11_ConstructionCheck ==
    Constructed =>
        /\ (cfg.SecretShares >= cfg.SecretThreshold /\ cfg.SecretThreshold >= 1
                => result = "ok")
        /\ (cfg.SecretShares < cfg.SecretThreshold => result = "err_config")

\* a configuration with as many shares as the threshold asks for was accepted
C11_Witness ==
    /\ Constructed
    /\ cfg.SecretShares = cfg.SecretThreshold
    /\ cfg.SecretThreshold >= 1
    /\ result = "ok"

\* C12: construction enforces 1 <= SecretThreshold <= SecretShares: every
\* configuration construction accepts has a threshold of one or more and a
\* share count no smaller than the threshold.
C12_ThresholdAtLeastOne ==
    (Constructed /\ result = "ok") =>
        /\ 1 <= cfg.SecretThreshold
        /\ cfg.SecretThreshold <= cfg.SecretShares

\* RaftJoin has returned
RaftJoinReturned == op = "RaftJoin" /\ pc = "idle"

\* the three cases C13 spells out: no join request to an initialized server
\* in raft storage mode, none from the first replica in HA storage mode, and
\* success after a join request only when it succeeded and reported joined
RaftJoinCases ==
    /\ (input.leaderAPIAddr # EmptyString /\ srvInit0 = "initialized"
            => result = "ok" /\ requests = <<>>)
    /\ (input.leaderAPIAddr = EmptyString /\ HasSuffix(input.POD_NAME, OrdinalZero)
            => result = "ok" /\ requests = <<>>)
    /\ (requests # <<>> /\ result = "ok"
            => requests[1].ok /\ requests[1].joined)

RootTokenPresent ==
    rootTokenKey \in DOMAIN store /\ Len(store[rootTokenKey]) > 0

\* C14: RaftInitialized returns true exactly when the root-token key is in
\* the key store with a non-empty value, whatever the server's init status;
\* it returns false without error when the key is not found or its value is
\* empty, an error for any other failure of the lookup, and it never writes
\* to the key store.
C14_RaftInitializedByStore ==
    (op = "RaftInitialized" /\ pc = "idle") =>
        /\ (result = "true" => RootTokenPresent)
        /\ (err = "nil" => (result = "true" <=> RootTokenPresent))
        /\ (err = "nil" /\ ~RootTokenPresent => result = "false")
        /\ (err = "notfound" => result = "false")
        /\ (err = "error" => result = "err_get_root")
        /\ sets = <<>>

\* the server is initialized, the root-token key holds the empty value, and
\* RaftInitialized answered false
C14_Witness ==
    /\ op = "RaftInitialized"
    /\ pc = "idle"
    /\ srvInit
    /\ rootTokenKey \in DOMAIN store
    /\ store[rootTokenKey] = EmptyString
    /\ result = "false"

\* C15: for each audit-device record whose path (the explicit path without
\* its leading and trailing slashes, else the device type) is in the live
\* audit table when the table is read, no enable request is sent for the
\* record and the loop goes on to the next record or ends with success; so a
\* run that follows a successful run over the same document sends no enable
\* request, and no run enables a path twice.
C15_MountedPathIsNoOp ==
    /\ [][(pc = "audit_list" /\ err' = "nil"
              /\ (AuditPath(input[i]) \o <<Slash>>) \in live.audit)
            => /\ requests' = requests
               /\ live' = live
               /\ i' = i + 1
               /\ \/ pc' = "audit_list"
                  \/ pc' = "idle" /\ result' = "ok" /\ i' > Len(input)]_vars
    /\ [][(op = "configureAuditDevices" /\ calls >= 2 /\ result = "ok")
            => requests' = <<>>]_vars
    /\ [](op = "configureAuditDevices"
            => \A m, n \in 1..Len(requests) :
                  m < n => requests[m].path # requests[n].path)

\* one run over two different records with the same path: the first was
\* enabled, the second found it mounted, and the run succeeded
C15_Witness ==
    /\ op = "configureAuditDevices"
    /\ pc = "idle"
    /\ result = "ok"
    /\ Len(input) = 2
    /\ input[1] # input[2]
    /\ AuditPath(input[1]) = AuditPath(input[2])
    /\ Len(requests) = 1
    /\ requests[1].record = 1

\* the write requests of the running call that went to one section
SectionRequests(section) ==
    {n \in 1..Len(requests) : requests[n].section = section}

\* configureIdentityGroups is running, or was the last call to run
InIdentityGroups == op = "configureIdentityGroups"

\* the desired aliases, each with the accessor of its mount
DesiredAliases ==
    {[name |-> input.aliases[n].name,
      accessor |-> AuthMounts[AuthMountKey(input.aliases[n].mountpath)]] :
        n \in 1..Len(input.aliases)}

\* C16: an existing alias is matched only when both its name and its mount
\* accessor equal the desired ones: a desired alias with no such alias on the
\* server is created, one with such an alias tunes that alias by its ID; so
\* after a successful run every desired name and mount has an alias of its
\* own (name N on mount A and name N on mount B are two aliases), and a run
\* that follows a successful run creates no alias.
C16_AliasMatchedByNameAndMount ==
    /\ [](InIdentityGroups =>
            \A n \in SectionRequests("alias") :
                /\ requests[n].existing = {}
                      => requests[n].path = AliasCreatePath
                /\ requests[n].existing # {}
                      => \E id \in requests[n].existing :
                            /\ requests[n].existing = {id}
                            /\ requests[n].path = AliasTunePath(id))
    /\ []((InIdentityGroups /\ pc = "idle" /\ result = "ok")
            => \A d \in DesiredAliases :
                  Cardinality(AliasesLike(d.name, d.accessor)) = 1)
    /\ [][(InIdentityGroups /\ calls >= 2 /\ result = "ok")
            => \A n \in 1..Len(requests') :
                  requests'[n].section = "alias"
                      => requests'[n].path # AliasCreatePath]_vars

\* a run after the one that created them: alias "n" on mount a and alias "n"
\* on mount b were each tuned by an ID of their own
C16_Witness ==
    /\ InIdentityGroups
    /\ calls = 2
    /\ pc = "idle"
    /\ result = "ok"
    /\ Len(input.aliases) = 2
    /\ input.aliases[1].name = input.aliases[2].name
    /\ input.aliases[1].mountpath # input.aliases[2].mountpath
    /\ Len(live.aliases) = 2
    /\ live.aliases[2].id = ID(4)
    /\ \E m, n \in SectionRequests("alias") :
          /\ requests[m].path = AliasTunePath(live.aliases[1].id)
          /\ requests[n].path = AliasTunePath(live.aliases[2].id)
          /\ requests[m].record = 1
          /\ requests[n].record = 2

\* the first record of the "groups" section whose type is not external, or
\* one past the section when there is none
FirstUnsupported ==
    LET bad == {n \in 1..Len(input.groups) : input.groups[n].type # External}
    IN  IF bad = {} THEN Len(input.groups) + 1
        ELSE CHOOSE n \in bad : \A m \in bad : n <= m

\* C17: each desired group of type external that reconciliation reaches gets
\* exactly one write, to the create path when the server has no group of
\* that name and to the tune-by-name path, with the same payload, when it
\* has one, so a run that follows a successful run creates no group; a group
\* of another type ends reconciliation with the unsupported-type error, and
\* neither it nor any later group or alias gets a write.
C17_GroupUpsert ==
    /\ [](InIdentityGroups =>
            /\ \A n \in SectionRequests("group") :
                  /\ requests[n].record = n
                  /\ n < FirstUnsupported
                  /\ requests[n].data = GroupConfig(input.groups[n])
                  /\ requests[n].path =
                        IF requests[n].existing = {}
                           THEN GroupCreatePath
                           ELSE GroupTunePath(input.groups[n].name)
            /\ (SectionRequests("alias") # {} \/ (pc = "idle" /\ result = "ok")
                    => /\ SectionRequests("group") = 1..Len(input.groups)
                       /\ FirstUnsupported > Len(input.groups))
            /\ (pc = "idle" /\ FirstUnsupported <= Len(input.groups)
                    => /\ result # "ok"
                       /\ (err = "nil" => /\ result = "err_group_type"
                                          /\ Len(requests) = FirstUnsupported - 1)))
    /\ [][(InIdentityGroups /\ calls >= 2 /\ result = "ok")
            => \A n \in 1..Len(requests') :
                  requests'[n].path # GroupCreatePath]_vars

\* an external group was created, then a group of another type ended the run
\* with the unsupported-type error before the alias was looked at
C17_Witness ==
    /\ InIdentityGroups
    /\ pc = "idle"
    /\ result = "err_group_type"
    /\ Len(input.groups) = 2
    /\ FirstUnsupported = 2
    /\ Len(input.aliases) > 0
    /\ Len(requests) = 1
    /\ requests[1].path = GroupCreatePath
    /\ requests[1].ok

\* the parts of text s between the occurrences of character c
RECURSIVE Split(_, _)
Split(s, c) ==
    LET hits == {n \in 1..Len(s) : s[n] = c}
        k == CHOOSE n \in hits : \A m \in hits : n <= m
    IN  IF hits = {} THEN <<s>>
        ELSE <<SubSeq(s, 1, k - 1)>> \o Split(SubSeq(s, k + 1, Len(s)), c)

\* the sequence parts holds exactly the values of map m, each as often as m
\* holds it
SameMultiset(parts, m) ==
    \A v \in {parts[n] : n \in 1..Len(parts)} \cup {m[k] : k \in DOMAIN m} :
        Cardinality({n \in 1..Len(parts) : parts[n] = v})
            = Cardinality({k \in DOMAIN m : m[k] = v})

\* generateCertPayload has run for the pki record
PayloadBuilt ==
    op = "pki startup secret" /\ pc \in {"pki_write", "idle"}

\* a data map of fewer than two values ends with the missing-key-or-
\* certificate error and nothing written; any other yields the single field
\* pem_bundle
PayloadShape ==
    /\ (Cardinality(DOMAIN input) < 2
            => result = "err_pki_payload" /\ requests = <<>>)
    /\ (Cardinality(DOMAIN input) >= 2
            => /\ result # "err_pki_payload"
               /\ DOMAIN val = {"pem_bundle"}
               /\ \A n \in 1..Len(requests) : requests[n].data = val)

\* C18 as stated: a data map of fewer than two values fails with the
\* missing-key-or-certificate error; any other yields a single pem_bundle
\* field whose newline-separated parts are exactly the multiset of the
\* supplied values.
C18_PartsAreTheValues ==
    PayloadBuilt =>
        /\ PayloadShape
        /\ (Cardinality(DOMAIN input) >= 2
                => SameMultiset(Split(val.pem_bundle, Newline), input))

\* C18, amended: a data map of fewer than two values fails with the
\* missing-key-or-certificate error; any other yields a single pem_bundle
\* field that is the supplied values, each once and in some order, with one
\* newline between neighbours; its newline-separated parts are exactly the
\* multiset of the supplied values when no value holds a newline.
C18_BundleJoinsTheValues ==
    PayloadBuilt =>
        /\ PayloadShape
        /\ (Cardinality(DOMAIN input) >= 2
                => /\ \E o \in RangeOrders(input) :
                         val.pem_bundle
                            = Join([n \in 1..Len(o) |-> input[o[n]]], <<Newline>>)
                   /\ ((\A k \in DOMAIN input :
                           \A n \in 1..Len(input[k]) : input[k][n] # Newline)
                          => SameMultiset(Split(val.pem_bundle, Newline), input)))

\* a key and a certificate of one line each were joined, certificate first,
\* and written
C18_Witness ==
    /\ PayloadBuilt
    /\ pc = "idle"
    /\ result = "ok"
    /\ input = [k \in {"key", "cert"} |-> IF k = "key" THEN <<"k">> ELSE <<"c">>]
    /\ val.pem_bundle = <<"c", Newline, "k">>
    /\ Len(requests) = 1

\* C19: in Init with InitRootToken set, a seal-status check that fails is
\* taken as still waiting: after a check that returned an error the loop is
\* still polling and the client's token is what it was when Init was called;
\* the temporary root token is set, and the fixed token created, only after
\* a check that succeeded and reported sealed=false.
C19_FailedCheckKeepsWaiting ==
    (op = "Init" /\ lastSeal # NoSeal) =>
        /\ (lastSeal.err = "error" => pc = "init_wait" /\ token = token0)
        /\ (pc # "init_wait" => lastSeal.err = "nil" /\ ~lastSeal.sealed)

\* C20: after Init returns on any exit path of the InitRootToken sequence
\* (fixed-token creation failed, revocation failed, root-token persistence
\* failed, or success), the client's token is cleared and is not the
\* generated root token.
C20_TokenReleasedAfterInit ==
    (/\ op = "Init"
     /\ pc = "idle"
     /\ cfg.InitRootToken # EmptyString
     /\ lastSeal # NoSeal
     /\ result \in {"err_orphan", "err_revoke", "err_store_root", "ok"})
        => token = EmptyString /\ token # resp.RootToken

\* the Set calls of the running Init other than the pre-flight probe's
ShareSets == SelectSeq(sets, LAMBDA r : r.key # testKey)

\* the key name Init stores the n-th share of its response under, unseal
\* shares first
ShareKey(n) ==
    IF n <= Len(resp.Keys)
       THEN unsealKeyForID(n - 1)
       ELSE recoveryKeyForID(n - Len(resp.Keys) - 1)

\* how many shares Init had stored when keyStoreSet failed
StoredBeforeFailure ==
    IF after = "unseal" THEN i ELSE Len(resp.Keys) + i

\* Init has returned the error of a failed share write
SharePersistFailed ==
    /\ op = "Init"
    /\ pc = "idle"
    /\ result \in {"err_store_unseal", "err_store_recovery"}

\* C21: when keyStoreSet fails while Init persists share k, Init returns the
\* error there: the shares before k were stored, no share after k and no root
\* token was written, and the server is initialized; the server stays
\* initialized, and every Init called from then on takes the
\* already-initialized path as soon as the server answers its status check,
\* returning without a write and without a remote init call, so the missing
\* shares are never stored or generated anew.
C21_PartialPersistenceStays ==
    /\ [](SharePersistFailed =>
            /\ srvInit
            /\ initCalls = 1
            /\ Len(ShareSets) \in {StoredBeforeFailure, StoredBeforeFailure + 1}
            /\ \A n \in 1..Len(ShareSets) :
                  /\ ShareSets[n].key = ShareKey(n)
                  /\ ShareSets[n].ok <=> n <= StoredBeforeFailure
            /\ ShareKey(StoredBeforeFailure + 1) = keyID)
    /\ [][srvInit => srvInit']_vars
    /\ [][(pc = "init_status" /\ srvInit)
            => /\ pc' = "idle"
               /\ result' \in {"ok", "err_status"}
               /\ (srvInit0' = "initialized" => result' = "ok")
               /\ store' = store
               /\ sets' = <<>>
               /\ initCalls' = 0]_vars

\* the first Init stored unseal share 0 and failed on share 1; the second
\* Init found the server initialized and returned success, share 1 missing
C21_Witness ==
    /\ op = "Init"
    /\ calls = 2
    /\ pc = "idle"
    /\ result = "ok"
    /\ srvInit0 = "initialized"
    /\ cfg.SecretShares = 2
    /\ Holds(unsealKeyForID(0), UnsealShare(0))
    /\ unsealKeyForID(1) \notin DOMAIN store
    /\ rootTokenKey \notin DOMAIN store

\* the indices of the recovery key names Init would write that hold a value
\* some other party left there
SeededRecovery ==
    {j \in 0..(cfg.SecretShares - 1) : Holds(recoveryKeyForID(j), SeedValue)}

\* an Init that found the server uninitialized, the root-token key and the
\* unseal keys absent and a recovery key name taken
RecoveryTaken ==
    /\ op = "Init"
    /\ srvInit0 = "uninitialized"
    /\ exists0 = {}
    /\ SeededRecovery # {}

\* C22: Init pre-validates only the root-token key and the unseal keys: with
\* a recovery key name Init would write already in the key store and the
\* root-token and unseal keys absent, pre-validation raises no conflict, the
\* remote init call is made and the unseal shares are stored; Init then fails
\* on storing that recovery share without a Set for it, and leaves the server
\* initialized and the value found under the name as it was.
C22_RecoveryNotPreValidated ==
    /\ [](RecoveryTaken =>
            /\ result # "err_exists"
            /\ (pc = "idle" /\ Len(resp.RecoveryKeys) > 0 => result # "ok")
            /\ (i \in SeededRecovery /\ keyID = recoveryKeyForID(i)
                    => /\ pc \in {"kss_get", "idle"}
                       /\ pc = "idle" => result = "err_store_recovery"
                       /\ initCalls = 1
                       /\ srvInit
                       /\ \A n \in 1..Len(resp.Keys) :
                             Holds(unsealKeyForID(n - 1), resp.Keys[n])
                       /\ \A n \in 1..Len(sets) :
                             sets[n].key # recoveryKeyForID(i)))
    /\ [][\A j \in 0..(MaxShares - 1) :
             Holds(recoveryKeyForID(j), SeedValue)
                => Holds(recoveryKeyForID(j), SeedValue)']_vars

\* recovery key 1 was taken: Init made the remote init call, stored both
\* unseal shares and recovery share 0, and failed on recovery share 1 because
\* the name exists
C22_Witness ==
    /\ RecoveryTaken
    /\ pc = "idle"
    /\ result = "err_store_recovery"
    /\ err = "nil"
    /\ i = 1
    /\ SeededRecovery = {1}
    /\ initCalls = 1
    /\ srvInit
    /\ Holds(unsealKeyForID(1), UnsealShare(1))
    /\ Holds(recoveryKeyForID(0), RecoveryShare(0))

\* how many consecutive indices, from 0 on, the key store holds an unseal
\* share for
ConsecutiveShares ==
    CHOOSE n \in 0..(MaxShares + 1) :
        /\ \A k \in 0..(n - 1) : unsealKeyForID(k) \in DOMAIN store
        /\ unsealKeyForID(n) \notin DOMAIN store

\* C23: with unseal shares in the key store for finitely many consecutive
\* indices from 0 on, every Unseal call ends, and ends with success, with the
\* bad-key error, with a transport error or with a fetch error, the fetch
\* error of a missing share being at the first missing index, whatever the
\* server answers and also when it goes on reporting sealed with progress;
\* one call never submits more shares than are stored consecutively.
C23_UnsealTerminates ==
    /\ [](op = "Unseal" =>
            /\ Len(submitted) <= ConsecutiveShares
            /\ \A n \in 1..Len(submitted) : submitted[n] = n - 1
            /\ (pc = "idle" =>
                   /\ result \in {"ok", "err_bad_key", "err_unseal_send",
                                  "err_unseal_get"}
                   /\ (result = "err_unseal_get" /\ err = "notfound"
                          => i = ConsecutiveShares)))
    /\ ((op = "Unseal" /\ pc # "idle") ~> (pc = "idle"))

\* the server reported sealed with progress for both stored shares, and
\* Unseal ended with the fetch error at index 2, the first missing one
C23_Witness ==
    /\ op = "Unseal"
    /\ pc = "idle"
    /\ result = "err_unseal_get"
    /\ err = "notfound"
    /\ ConsecutiveShares = 2
    /\ i = 2
    /\ submitted = <<0, 1>>
    /\ \A n \in 1..Len(resps) : resps[n].sealed /\ resps[n].progress > 0


\* ------------------------------------------------------------------- C24
\* the values behind the first k indices Unseal submitted that are shares the
\* server handed out at its initialization
ValidSubmitted(k) ==
    {store[unsealKeyForID(submitted[n])] : n \in 1..k}
        \cap {UnsealShare(n) : n \in 0..(cfg.SecretShares - 1)}

\* the answer of a server that unseals once SecretThreshold distinct valid
\* shares are in, and reports how many it has before that
ShamirAnswer(k) ==
    IF Cardinality(ValidSubmitted(k)) >= cfg.SecretThreshold
        THEN [sealed |-> FALSE, progress |-> 0]
        ELSE [sealed |-> TRUE, progress |-> Cardinality(ValidSubmitted(k))]

\* the finished Unseal met no store error and no transport error, and every
\* answer it got is the answer of the server above
ReliableUnseal ==
    /\ op = "Unseal"
    /\ pc = "idle"
    /\ err # "error"
    /\ result # "err_unseal_send"
    /\ \A k \in 1..Len(resps) : resps[k] = ShamirAnswer(k)

\* Unseal returned success after the shares 0..SecretThreshold-1, each the
\* value Init stored under its name
UnsealedWithThreshold ==
    /\ result = "ok"
    /\ submitted = [n \in 1..cfg.SecretThreshold |-> n - 1]
    /\ \A n \in 1..Len(submitted) :
          Holds(unsealKeyForID(submitted[n]), UnsealShare(submitted[n]))

\* C24: for every configuration New accepts, an Unseal that follows a
\* successful Init of an uninitialized server, with a reliable key store and
\* a server that unseals at SecretThreshold distinct valid shares, returns
\* success after submitting exactly the shares 0..SecretThreshold-1, all of
\* them values Init stored
C24_UnsealAfterInit == ReliableUnseal => UnsealedWithThreshold

\* the same with the thresholds a seal can have: at least one share is needed
C24_UnsealAfterInitFromOne ==
    (ReliableUnseal /\ cfg.SecretThreshold >= 1) => UnsealedWithThreshold

\* a finished Unseal of the kind C24 is about, for a threshold of two
C24_Witness ==
    /\ ReliableUnseal
    /\ cfg.SecretThreshold = 2
    /\ Len(submitted) = 2


\* ------------------------------------------------------------------- C25
\* the controllers whose remote init call returned an init response
Winners == {c \in Controllers : live[c].resp # NoResponse}

\* the controllers whose remote init call was made and rejected
Rejected ==
    {c \in Controllers : live[c].initCalls = 1 /\ live[c].resp = NoResponse}

\* the Set calls of controller c for anything but the pre-flight probe
ShareWrites(c) ==
    {n \in 1..Len(requests) : requests[n].by = c /\ requests[n].key # testKey}

\* the key names an init response has a share for, and the root-token name
ResponseShares(r) ==
    {unsealKeyForID(n - 1) : n \in 1..Len(r.Keys)}
        \cup {recoveryKeyForID(n - 1) : n \in 1..Len(r.RecoveryKeys)}

\* the value an init response has for a key name
ResponseValue(r, k) ==
    IF k = rootTokenKey
        THEN r.RootToken
        ELSE IF k[1] = unsealKeyForID(0)[1]
                THEN r.Keys[k[2] + 1]
                ELSE r.RecoveryKeys[k[2] + 1]

\* both controllers have returned
BothReturned == \A c \in Controllers : live[c].pc = "idle"

====
